---- MODULE Spec2Model ----
(***************************************************************************)
(* A model of the connection-steering engine of jmbarzee/loadbalancer:     *)
(* the per-group least-connections tracker (tracker.UpstreamConns and its  *)
(* indexed heap upstreamPQ), the per-downstream admission counter          *)
(* (tracker.DownstreamConns), the health monitor and Trafficker.Handle.    *)
(*                                                                         *)
(* Every method that runs under a sync.Mutex (Lock; defer Unlock) is one   *)
(* atomic action.  Go slices are 0-based: position i of the Go slice pq is *)
(* element i + 1 of the sequence pq here, and the index field keeps the Go *)
(* value (-1 when the upstream is not in the queue).                       *)
(***************************************************************************)
EXTENDS Integers, Sequences, FiniteSets, TLC

\* ------------------------------------------------------------------ bounds

\* Largest number of not yet ended connections per upstream that the callers
\* of the tracker API open (SpecUpstreamConns).
MaxOpen == 5

\* Concurrent Handle invocations (goroutines of the accept loop).
NumConns == 2

\* Health probes of one upstream in flight at a time (a tick starts one
\* per upstream whether or not the previous one has finished).
MaxProbes == 1

\* Largest MaxConnections of a downstream.
MaxCap == 1

\* Largest max that the callers of the DownstreamConns API pass.
MaxArg == 2

\* Largest number of admitted and not yet released connections per
\* downstream that the callers of the DownstreamConns API hold.
MaxLive == 3

\* Most probes of one upstream in flight at once in SpecMonitor: probes of
\* two ticks overlap.
MaxOverlap == 2

\* Concurrent invocations of dialRetryBackoff (SpecDial).
NumDialers == 2

\* Largest RetryAttempts of the configuration (SpecDial).
MaxAttempts == 3

\* Connections that Server.Listen has accepted and handles concurrently.
NumAccepts == 2

\* Most bytes that the peer of a connection sends (SpecPump).
MaxStream == 2

\* ------------------------------------------------------ values and inputs

\* connCount is a uint32 and wraps modulo 2^32.  TLC's integers are 32-bit
\* signed, so the model keeps the wrap-around at a narrower width: counts
\* below the modulus behave alike, and 0 - 1 wraps to the largest value.
CounterModulus == 65536

UpstreamIDs == {"u1", "u2", "u3"}

NoUpstream == "none"

DownstreamIDs == {"d1", "d2"}

\* The group of the tracker that SpecUpstreamConns drives.
UnitGroup == "g1"

VARIABLES
    ups,              \* NewTrafficker's argument ups: upstream id -> group
    downs,            \* NewTrafficker's argument downs: id -> MaxConnections
    downstreams,      \* Trafficker.downstreams
    upstreams,        \* Trafficker.upstreams
    upstreamTrackers, \* Trafficker.upstreamTrackers: group -> UpstreamConns
    upstreamHealth,   \* Trafficker.upstreamHealth.upstreams
    connCounts,       \* Trafficker.downstreamTracker.connCounts
    conns,            \* the Handle invocations, one record per goroutine
    probes,           \* the health-probe goroutines in flight, per upstream
    ctxDone,          \* the context passed to Start is cancelled
    monitor,          \* routineHealthChecks: "running" or "returned"
    crashed,          \* a goroutine panicked: the process has ended
    probed,           \* history: upstreams with a successful health probe
    tick,             \* history: the probes the latest tick started
    beginCounts,      \* connCounts of a DownstreamConns of downstream.go
    live,             \* history: admits not yet released, per API and id
    open,             \* history: selected and not yet ended, per upstream
    marked,           \* history: the latest availability mark per upstream
    last,             \* history: the latest tracker call, its id and the
                      \* connCount and index of that id before the call
    run,              \* history: a run of NextAvailableUpstream calls that
                      \* started with all available upstreams at one count
    dial,             \* the invocations of dialRetryBackoff
    pump,             \* one invocation of proxy.Bidirectional, its two
                      \* loops and its two connections
    server,           \* the invocations of Server.handle
    locks             \* the mutexes and the position of every goroutine
                      \* in its sequence of Lock, Unlock and blocking calls

vars == <<ups, downs, downstreams, upstreams, upstreamTrackers,
          upstreamHealth, connCounts, conns, probes, ctxDone, monitor,
          crashed, probed, tick, beginCounts, live, open, marked, last, run,
          dial, pump, server, locks>>

\* The arguments of NewTrafficker and the lookup tables, read-only after start.
staticVars == <<ups, downs, downstreams, upstreams>>

engineVars == <<conns, probes, ctxDone, monitor, crashed, probed, tick>>

limiterUnitVars == <<beginCounts, live>>

trackerUnitVars == <<open, marked, last, run>>

\* The components that are also run on their own.
componentVars == <<dial, pump, server, locks>>

traffickerVars == <<staticVars, upstreamHealth, connCounts, engineVars,
                    limiterUnitVars, componentVars>>

\* ------------------------------------------------- upstreamPQ (the heap)
\* A tracker is a record [upstreams, pq]: upstreams maps an id to its
\* [connCount, index] entry, pq is the sequence of ids in heap order.

PQLen(tr) == Len(tr.pq)

\* pq[i] of the Go slice.
At(tr, i) == tr.pq[i + 1]

LessGreater(tr, i, j) ==
    tr.upstreams[At(tr, i)].connCount > tr.upstreams[At(tr, j)].connCount

Less(tr, i, j) ==
    tr.upstreams[At(tr, i)].connCount < tr.upstreams[At(tr, j)].connCount

Swap(tr, i, j) ==
    LET a == At(tr, i)
        b == At(tr, j)
        pq1 == [tr.pq EXCEPT ![i + 1] = b, ![j + 1] = a]
        \* pq[i].index = i ; pq[j].index = j, in this order
        up1 == [tr.upstreams EXCEPT ![pq1[i + 1]].index = i]
        up2 == [up1 EXCEPT ![pq1[j + 1]].index = j]
    IN  [upstreams |-> up2, pq |-> pq1]

Push(tr, id) ==
    [upstreams |-> [tr.upstreams EXCEPT ![id].index = PQLen(tr)],
     pq |-> Append(tr.pq, id)]

\* Leaves the index of the popped upstream as it was.
PopKeepingIndex(tr) ==
    [upstreams |-> tr.upstreams, pq |-> SubSeq(tr.pq, 1, PQLen(tr) - 1)]

Pop(tr) ==
    LET n == PQLen(tr)
        item == At(tr, n - 1)
    IN  [upstreams |-> [tr.upstreams EXCEPT ![item].index = -1],
         pq |-> SubSeq(tr.pq, 1, n - 1)]

peek(tr) == IF PQLen(tr) = 0 THEN NoUpstream ELSE At(tr, 0)

\* Go's integer division truncates toward zero: (0 - 1) / 2 = 0.
GoParent(j) == IF j = 0 THEN 0 ELSE (j - 1) \div 2

RECURSIVE heapUp(_, _)
heapUp(tr, j) ==
    LET i == GoParent(j)
    IN  IF i = j \/ ~Less(tr, j, i)
        THEN tr
        ELSE heapUp(Swap(tr, i, j), i)

\* heapDown returns the tracker and the position the element ended at.
RECURSIVE heapDown(_, _, _)
heapDown(tr, i, n) ==
    LET j1 == 2 * i + 1
        j2 == j1 + 1
        j == IF j2 < n /\ Less(tr, j2, j1) THEN j2 ELSE j1
    IN  IF j1 >= n
        THEN [tr |-> tr, i |-> i]
        ELSE IF ~Less(tr, j, i)
             THEN [tr |-> tr, i |-> i]
             ELSE heapDown(Swap(tr, i, j), j, n)

\* Restores the order towards the root only.
heapFixUpOnly(tr, i) == heapUp(tr, i)

heapFix(tr, i) ==
    LET d == heapDown(tr, i, PQLen(tr))
    IN  IF d.i > i THEN d.tr ELSE heapUp(tr, i)

heapPush(tr, id) ==
    LET t1 == Push(tr, id)
    IN  heapUp(t1, PQLen(t1) - 1)

\* Pops the last upstream without swapping up into the last position.
removeLast(tr, id) == Pop(tr)

remove(tr, id) ==
    IF PQLen(tr) = 1
    THEN Pop(tr)
    ELSE LET i == tr.upstreams[id].index
             j == PQLen(tr) - 1
         IN  IF i = j
             THEN Pop(tr)
             ELSE heapFix(Pop(Swap(tr, i, j)), i)

\* ------------------------------------------------------- UpstreamConns

NewUpstreamConns(upstreamIDs) ==
    [upstreams |-> [id \in upstreamIDs |-> [connCount |-> 0, index |-> -1]],
     pq |-> << >>]

\* add(upstream_id): a new entry with connCount 0 that is not in the heap.
AddUpstream(tr, id) ==
    [upstreams |-> [u \in (DOMAIN tr.upstreams) \cup {id} |->
                        IF u = id THEN [connCount |-> 0, index |-> -1]
                        ELSE tr.upstreams[u]],
     pq |-> tr.pq]

\* Increments the root without restoring the heap order.
NextAvailableUpstreamNoFix(tr) ==
    LET upstream == peek(tr)
    IN  IF upstream = NoUpstream
        THEN [tr |-> tr, id |-> NoUpstream]
        ELSE [tr |-> [tr EXCEPT !.upstreams[upstream].connCount =
                                    (@ + 1) % CounterModulus],
              id |-> upstream]

\* NextAvailableUpstream returns [tr, id]; id = NoUpstream stands for
\* errorNoAvailableUpstream.
NextAvailableUpstream(tr) ==
    LET upstream == peek(tr)
    IN  IF upstream = NoUpstream
        THEN [tr |-> tr, id |-> NoUpstream]
        ELSE LET t1 == [tr EXCEPT !.upstreams[upstream].connCount =
                                      (@ + 1) % CounterModulus]
             IN  [tr |-> heapFix(t1, t1.upstreams[upstream].index),
                  id |-> upstream]

\* Returns for an upstream outside the heap before decrementing.
ConnectionEndedInHeapOnly(tr, id) ==
    IF tr.upstreams[id].index < 0
    THEN tr
    ELSE heapFix([tr EXCEPT !.upstreams[id].connCount = (@ - 1) % CounterModulus],
                 tr.upstreams[id].index)

\* Puts an upstream outside the heap back once its last connection ended.
ConnectionEndedRestoring(tr, id) ==
    LET t1 == [tr EXCEPT !.upstreams[id].connCount = (@ - 1) % CounterModulus]
    IN  IF t1.upstreams[id].index < 0
        THEN IF t1.upstreams[id].connCount = 0 THEN heapPush(t1, id) ELSE t1
        ELSE heapFix(t1, t1.upstreams[id].index)

ConnectionEnded(tr, id) ==
    LET t1 == [tr EXCEPT !.upstreams[id].connCount = (@ - 1) % CounterModulus]
    IN  IF t1.upstreams[id].index < 0
        THEN t1
        ELSE heapFix(t1, t1.upstreams[id].index)

\* Forgets the connections of the upstream it removes.
UpstreamUnavailableReset(tr, id) ==
    IF tr.upstreams[id].index < 0
    THEN tr
    ELSE remove([tr EXCEPT !.upstreams[id].connCount = 0], id)

\* Removes only an upstream without connections.
UpstreamUnavailableIdleOnly(tr, id) ==
    IF tr.upstreams[id].index < 0 \/ tr.upstreams[id].connCount > 0
    THEN tr
    ELSE remove(tr, id)

UpstreamUnavailable(tr, id) ==
    IF tr.upstreams[id].index < 0 THEN tr ELSE remove(tr, id)

\* Puts the upstream back with a fresh connCount.
UpstreamAvailableFresh(tr, id) ==
    IF tr.upstreams[id].index > -1
    THEN tr
    ELSE heapPush([tr EXCEPT !.upstreams[id].connCount = 0], id)

UpstreamAvailable(tr, id) ==
    IF tr.upstreams[id].index > -1 THEN tr ELSE heapPush(tr, id)

\* ------------------------------------------------------ DownstreamConns

NewDownstreamConns == << >>

\* value, ok := t.connCounts[id]
Count(cc, id) == IF id \in DOMAIN cc THEN cc[id] ELSE 0

Store(cc, id, value) ==
    [d \in (DOMAIN cc) \cup {id} |-> IF d = id THEN value ELSE cc[d]]

\* The DownstreamConns that Trafficker.Handle calls.
TryRecordConnection(cc, downstreamID, max) ==
    IF downstreamID \notin DOMAIN cc
    THEN [cc |-> Store(cc, downstreamID, 1), ok |-> TRUE]
    ELSE IF cc[downstreamID] < max
         THEN [cc |-> Store(cc, downstreamID, (cc[downstreamID] + 1) % CounterModulus),
               ok |-> TRUE]
         ELSE [cc |-> cc, ok |-> FALSE]

DownstreamConnectionEnded(cc, downstreamID) ==
    Store(cc, downstreamID, (Count(cc, downstreamID) - 1) % CounterModulus)

\* The DownstreamConns of internal/tracker/downstream.go.
TryBeginConnection(cc, downstream, max) ==
    IF downstream \notin DOMAIN cc
    THEN [cc |-> Store(cc, downstream, 1), ok |-> TRUE]
    ELSE IF cc[downstream] < max
         THEN [cc |-> Store(cc, downstream, (cc[downstream] + 1) % CounterModulus),
               ok |-> TRUE]
         ELSE [cc |-> cc, ok |-> FALSE]

EndConnection(cc, downstream) ==
    Store(cc, downstream,
          (Count(cc, downstream) - Count(cc, downstream)) % CounterModulus)

\* ------------------------------------------------------------ Trafficker

RECURSIVE AddAll(_, _)
AddAll(tr, ids) ==
    IF ids = {} THEN tr
    ELSE LET id == CHOOSE x \in ids : TRUE
         IN  AddAll(AddUpstream(tr, id), ids \ {id})

GroupsOf(c_ups) == {c_ups[u] : u \in DOMAIN c_ups}

\* The Trafficker that NewTrafficker returns.  Its loops build the tables
\* upstreams, upstreamHealth (all false) and downstreams, but the returned
\* struct literal sets only downstreamTracker, upstreamTrackers, config and
\* logger: the other three fields keep their zero value, an empty table.
NewTrafficker(c_downs, c_ups) ==
    [downstreamTracker |-> NewDownstreamConns,
     upstreamTrackers |->
         [g \in GroupsOf(c_ups) |->
             AddAll(NewUpstreamConns({}), {u \in DOMAIN c_ups : c_ups[u] = g})],
     downstreams |-> << >>,
     upstreams |-> << >>,
     upstreamHealth |-> << >>]

\* The Trafficker whose fields hold the tables built from the same
\* arguments: the receiver that the field comments of the struct describe
\* and that Handle and routineHealthChecks read.
TraffickerWithTables(c_downs, c_ups) ==
    [NewTrafficker(c_downs, c_ups) EXCEPT
        !.downstreams = c_downs,
        !.upstreams = c_ups,
        !.upstreamHealth = [u \in DOMAIN c_ups |-> FALSE]]

IdleConn ==
    [pc |-> "idle", downstreamID |-> "", upstreamGroup |-> "",
     upstreamID |-> NoUpstream, closed |-> FALSE, dialed |-> FALSE,
     demoted |-> FALSE,
     admits |-> 0, releases |-> 0, selects |-> 0, ends |-> 0]

EngineIdle ==
    /\ conns = [h \in 1..NumConns |-> IdleConn]
    /\ probes = [u \in UpstreamIDs |-> << >>]
    /\ ctxDone = FALSE
    /\ monitor = "running"
    /\ crashed = FALSE
    /\ probed = {}
    /\ tick = [seen |-> FALSE, started |-> {}]

LimiterUnitIdle ==
    /\ beginCounts = NewDownstreamConns
    /\ live = [api \in {"record", "begin"} |-> [d \in DownstreamIDs |-> 0]]

TrackerUnitIdle ==
    /\ open = [u \in UpstreamIDs |-> 0]
    /\ marked = [u \in UpstreamIDs |-> "none"]
    /\ last = [op |-> "none", id |-> NoUpstream, c |-> 0, index |-> -1]
    /\ run = [active |-> FALSE, base |-> 0, n |-> 0]

\* A dialRetryBackoff that has not been called.  dials counts the calls of
\* net.DialTCP, sleeps the waits for the backoff timer.
DialIdle ==
    [pc |-> "idle", addr |-> NoUpstream, attempts |-> 0, i |-> 0,
     dials |-> 0, sleeps |-> 0, result |-> "none"]

\* The two connections of a pump and its two directions.
Sides == {"down", "up"}

Dirs == {"toUp", "toDown"}

\* readWriteLoop(down, up) is the direction toUp, readWriteLoop(up, down)
\* the direction toDown.
Source(dir) == IF dir = "toUp" THEN "down" ELSE "up"

Sink(dir) == IF dir = "toUp" THEN "up" ELSE "down"

\* A connection whose peer sends the bytes of stream: sent is what the peer
\* sends in all, in what has not been read yet, out what has been written
\* to the peer; eof: the peer has closed, reset: the connection is broken,
\* closed and closes: Close was called, and how often.
Conn(stream) ==
    [sent |-> stream, in |-> stream, out |-> << >>, eof |-> FALSE,
     reset |-> FALSE, closed |-> FALSE, closes |-> 0]

\* A readWriteLoop: buf is buff[:n] of the latest Read, got all it has read,
\* readErr the error that the latest Read with n > 0 returned next to its
\* bytes.
LoopIdle ==
    [pc |-> "idle", buf |-> << >>, got |-> << >>, readErr |-> "nil",
     writeErr |-> "nil", closeErr |-> "nil"]

\* A Bidirectional right after its call on two connections whose peers send
\* downStream and upStream: wg.Add(2) and the two go statements have run.
StartedPump(downStream, upStream) ==
    [pc |-> "wait", wg |-> 2,
     sock |-> [sd \in Sides |->
                  Conn(IF sd = "down" THEN downStream ELSE upStream)],
     loop |-> [dir \in Dirs |-> [LoopIdle EXCEPT !.pc = "read"]],
     ret |-> << >>, log |-> "none"]

\* A Bidirectional that has not been called.  ret holds its four results
\* once it has returned, log what Handle logged about them.
PumpIdle ==
    [pc |-> "idle", wg |-> 0, sock |-> [sd \in Sides |-> Conn(<< >>)],
     loop |-> [dir \in Dirs |-> LoopIdle], ret |-> << >>, log |-> "none"]

\* A Server.handle that has not been called.  handshake is what
\* connTLS.Handshake() returned, hello whether GetConfigForClient has run
\* and set hello, certs whether the connection state holds peer
\* certificates; serverName and commonName are what the client sent in its
\* ClientHello and in its leaf certificate; handed: Trafficker.Handle was
\* called.
ServerIdle ==
    [pc |-> "idle", handshake |-> "none", hello |-> FALSE, certs |-> FALSE,
     serverName |-> "", commonName |-> "", handed |-> FALSE]

\* The goroutines that take locks: the Handle invocations, the probes that
\* rangeOverConcurrently starts and routineHealthChecks.
NumHandlers == 2

NumProbeSlots == 2

HandleTasks == {<<"handle", k>> : k \in 1..NumHandlers}

ProbeTasks == {<<"probe", k>> : k \in 1..NumProbeSlots}

MonitorTask == <<"monitor", 1>>

Tasks == HandleTasks \cup ProbeTasks \cup {MonitorTask}

\* The mutexes: DownstreamConns.mu, upstreamHealth.mu and one
\* UpstreamConns.mu per group.  There is one group, with one upstream.
LockGroups == {"g1"}

Mutexes == {"limiter", "health"} \cup LockGroups

NoTask == <<"none", 0>>

\* No mutex is held, no Handle runs, no probe runs, and
\* routineHealthChecks waits in its select.  group is the group whose
\* tracker the goroutine uses.
LocksIdle ==
    [holder |-> [m \in Mutexes |-> NoTask],
     task |-> [t \in Tasks |->
                  [pc |-> IF t = MonitorTask THEN "select" ELSE "idle",
                   group |-> "g1"]]]

ComponentIdle ==
    /\ dial = [k \in 1..NumDialers |-> DialIdle]
    /\ pump = PumpIdle
    /\ server = [k \in 1..NumAccepts |-> ServerIdle]
    /\ locks = LocksIdle

\* The inputs of NewTrafficker that the model draws from.
UpsChoices == {[u \in {"u1", "u2"} |-> "g1"]}

DownsChoices == {[d \in DownstreamIDs |-> IF d = "d1" THEN c ELSE MaxCap] :
                    c \in 0..MaxCap}

\* The groups a downstream asks for; no upstream is of group g0.
RequestedGroups == {"g0", "g1"}

Init ==
    /\ ups \in UpsChoices
    /\ downs \in DownsChoices
    /\ \E t \in {NewTrafficker(downs, ups), TraffickerWithTables(downs, ups)} :
           /\ downstreams = t.downstreams
           /\ upstreams = t.upstreams
           /\ upstreamTrackers = t.upstreamTrackers
           /\ upstreamHealth = t.upstreamHealth
           /\ connCounts = t.downstreamTracker
    /\ EngineIdle
    /\ LimiterUnitIdle
    /\ TrackerUnitIdle
    /\ ComponentIdle

\* ------------------------------------------------------ Trafficker.Handle
\* One action per stretch of Handle between two lock acquisitions or
\* blocking calls.  A panic runs the deferred calls registered so far and
\* then ends the process (no goroutine recovers).

\* t.upstreamTracker(id): the group of t.upstreams[id].
TrackerGroup(id) == upstreams[id]

unitVars == <<limiterUnitVars, trackerUnitVars, componentVars>>

\* What Handle leaves alone, apart from the pump it runs.
handleRest == <<staticVars, upstreamHealth, probes, ctxDone, monitor,
                probed, tick, limiterUnitVars, trackerUnitVars, dial, server,
                locks>>

handleFrame == <<staticVars, upstreamHealth, probes, ctxDone, monitor,
                 probed, tick, unitVars>>

\* Handle is called: the connection limit is looked up and the admission
\* is tried; a refused downstream is closed and Handle returns.
HandleAdmit(h, downstreamID, upstreamGroup) ==
    /\ ~crashed
    /\ conns[h].pc \in {"idle", "returned"}
    /\ LET c == [IdleConn EXCEPT !.downstreamID = downstreamID,
                                 !.upstreamGroup = upstreamGroup]
       IN  IF downstreamID \notin DOMAIN downstreams
           THEN \* t.downstreams[downstreamID] is nil: MaxConnections() panics
                /\ conns' = [conns EXCEPT ![h] = [c EXCEPT !.pc = "panicked"]]
                /\ crashed' = TRUE
                /\ UNCHANGED connCounts
           ELSE LET r == TryRecordConnection(connCounts, downstreamID,
                                            downstreams[downstreamID])
                IN  /\ connCounts' = r.cc
                    /\ conns' = [conns EXCEPT ![h] =
                           IF r.ok
                           THEN [c EXCEPT !.pc = "select", !.admits = 1]
                           ELSE [c EXCEPT !.pc = "returned", !.closed = TRUE,
                                          !.downstreamID = "",
                                          !.upstreamGroup = ""]]
                    /\ UNCHANGED crashed
    /\ UNCHANGED <<upstreamTrackers, handleFrame>>

\* The deferred release is registered; an upstream is selected.
HandleSelect(h) ==
    LET c == conns[h]
    IN  /\ ~crashed
        /\ c.pc = "select"
        /\ IF c.upstreamGroup \notin DOMAIN upstreamTrackers
           THEN \* a nil *UpstreamConns: the call panics, the deferred
                \* release runs
                /\ connCounts' = DownstreamConnectionEnded(connCounts, c.downstreamID)
                /\ conns' = [conns EXCEPT ![h] =
                       [c EXCEPT !.pc = "panicked", !.releases = @ + 1]]
                /\ crashed' = TRUE
                /\ UNCHANGED upstreamTrackers
           ELSE LET r == NextAvailableUpstream(upstreamTrackers[c.upstreamGroup])
                IN  IF r.id = NoUpstream
                    THEN /\ conns' = [conns EXCEPT ![h] =
                                [c EXCEPT !.pc = "release", !.closed = TRUE]]
                         /\ UNCHANGED <<upstreamTrackers, connCounts, crashed>>
                    ELSE /\ upstreamTrackers' =
                                [upstreamTrackers EXCEPT ![c.upstreamGroup] = r.tr]
                         /\ IF r.id \notin DOMAIN upstreams
                            THEN \* t.upstreamTracker(upstreamID) panics
                                 \* before the defer is registered
                                 /\ connCounts' = DownstreamConnectionEnded(
                                                      connCounts, c.downstreamID)
                                 /\ conns' = [conns EXCEPT ![h] =
                                        [c EXCEPT !.pc = "panicked",
                                                  !.upstreamID = r.id,
                                                  !.selects = @ + 1,
                                                  !.releases = @ + 1]]
                                 /\ crashed' = TRUE
                            ELSE /\ conns' = [conns EXCEPT ![h] =
                                        [c EXCEPT !.pc = "dial",
                                                  !.upstreamID = r.id,
                                                  !.selects = @ + 1]]
                                 /\ UNCHANGED <<connCounts, crashed>>
        /\ UNCHANGED handleFrame

\* dialRetryBackoff returns.  With a connection, Handle calls
\* proxy.Bidirectional, whose state after the call is started.  With
\* errorAllAttemptsFailed, Handle closes the downstream and takes the
\* upstream out of availability.
HandleDialThen(h, started) ==
    LET c == conns[h]
        g == TrackerGroup(c.upstreamID)
    IN  /\ ~crashed
        /\ c.pc = "dial"
        /\ \/ /\ conns' = [conns EXCEPT ![h] =
                     [c EXCEPT !.pc = "pump", !.dialed = TRUE]]
              /\ pump' = started
              /\ UNCHANGED upstreamTrackers
           \/ /\ upstreamTrackers' = [upstreamTrackers EXCEPT ![g] =
                     UpstreamUnavailable(upstreamTrackers[g], c.upstreamID)]
              /\ conns' = [conns EXCEPT ![h] =
                     [c EXCEPT !.pc = "endUpstream", !.dialed = TRUE,
                               !.closed = TRUE, !.demoted = TRUE]]
              /\ UNCHANGED pump
        /\ UNCHANGED <<connCounts, crashed, handleRest>>

\* Registers the deferred ConnectionEnded only after a successful dial.
HandleDialDeferLate(h) ==
    LET c == conns[h]
        g == TrackerGroup(c.upstreamID)
    IN  /\ ~crashed
        /\ c.pc = "dial"
        /\ \/ /\ conns' = [conns EXCEPT ![h] =
                     [c EXCEPT !.pc = "pump", !.dialed = TRUE]]
              /\ UNCHANGED upstreamTrackers
           \/ /\ upstreamTrackers' = [upstreamTrackers EXCEPT ![g] =
                     UpstreamUnavailable(upstreamTrackers[g], c.upstreamID)]
              /\ conns' = [conns EXCEPT ![h] =
                     [c EXCEPT !.pc = "release", !.dialed = TRUE,
                               !.closed = TRUE, !.demoted = TRUE]]
        /\ UNCHANGED <<connCounts, crashed, handleFrame>>

\* Returns after a failed dial without the call of UpstreamUnavailable.
HandleDialNoDemote(h) ==
    LET c == conns[h]
    IN  /\ ~crashed
        /\ c.pc = "dial"
        /\ \/ conns' = [conns EXCEPT ![h] =
                  [c EXCEPT !.pc = "pump", !.dialed = TRUE]]
           \/ conns' = [conns EXCEPT ![h] =
                  [c EXCEPT !.pc = "endUpstream", !.dialed = TRUE,
                            !.closed = TRUE, !.demoted = TRUE]]
        /\ UNCHANGED <<upstreamTrackers, connCounts, crashed, handleFrame>>

\* Records a failed dial in the health map as well.
HandleDialMarkingUnhealthy(h) ==
    LET c == conns[h]
        g == TrackerGroup(c.upstreamID)
    IN  /\ ~crashed
        /\ c.pc = "dial"
        /\ \/ /\ conns' = [conns EXCEPT ![h] =
                     [c EXCEPT !.pc = "pump", !.dialed = TRUE]]
              /\ UNCHANGED <<upstreamTrackers, upstreamHealth>>
           \/ /\ upstreamTrackers' = [upstreamTrackers EXCEPT ![g] =
                     UpstreamUnavailable(upstreamTrackers[g], c.upstreamID)]
              /\ upstreamHealth' =
                     [u \in (DOMAIN upstreamHealth) \cup {c.upstreamID} |->
                         IF u = c.upstreamID THEN FALSE ELSE upstreamHealth[u]]
              /\ conns' = [conns EXCEPT ![h] =
                     [c EXCEPT !.pc = "endUpstream", !.dialed = TRUE,
                               !.closed = TRUE, !.demoted = TRUE]]
        /\ UNCHANGED <<connCounts, crashed, staticVars, probes, ctxDone,
                       monitor, probed, tick, unitVars>>

\* Handle in the running system, where the pump is left out: a connection
\* that is being proxied ends at any time.
HandleDial(h) == HandleDialThen(h, pump)

\* Takes a failed copy towards the upstream for a failure of the upstream.
HandleEndUpstreamDemoting(h, left) ==
    LET c == conns[h]
        g == TrackerGroup(c.upstreamID)
        t1 == ConnectionEnded(upstreamTrackers[g], c.upstreamID)
    IN  /\ ~crashed
        /\ c.pc \in {"pump", "endUpstream"}
        /\ upstreamTrackers' = [upstreamTrackers EXCEPT ![g] =
               IF c.pc = "pump" /\ pump.ret[1] # "nil"
               THEN UpstreamUnavailable(t1, c.upstreamID)
               ELSE t1]
        /\ conns' = [conns EXCEPT ![h] =
               [c EXCEPT !.pc = "release", !.ends = @ + 1, !.closed = TRUE]]
        /\ pump' = left
        /\ UNCHANGED <<connCounts, crashed, handleRest>>

\* proxy.Bidirectional returns once both directions have ended and closed
\* their sinks; its four results are only logged.  Then the deferred
\* t.upstreamTracker(upstreamID).ConnectionEnded(upstreamID) runs.
\* After a failed dial the deferred call runs right after the demotion.
\* left is what remains of the pump.
HandleEndUpstreamThen(h, left) ==
    LET c == conns[h]
        g == TrackerGroup(c.upstreamID)
    IN  /\ ~crashed
        /\ c.pc \in {"pump", "endUpstream"}
        /\ upstreamTrackers' = [upstreamTrackers EXCEPT ![g] =
               ConnectionEnded(upstreamTrackers[g], c.upstreamID)]
        /\ conns' = [conns EXCEPT ![h] =
               [c EXCEPT !.pc = "release", !.ends = @ + 1, !.closed = TRUE]]
        /\ pump' = left
        /\ UNCHANGED <<connCounts, crashed, handleRest>>

HandleEndUpstream(h) == HandleEndUpstreamThen(h, pump)

\* Runs the deferred release also before the deferred upstream
\* ConnectionEnded, which then never runs.
HandleReleaseEarly(h) ==
    LET c == conns[h]
    IN  /\ ~crashed
        /\ c.pc \in {"release", "pump", "endUpstream"}
        /\ connCounts' = DownstreamConnectionEnded(connCounts, c.downstreamID)
        /\ conns' = [conns EXCEPT ![h] =
               [c EXCEPT !.pc = "returned", !.releases = @ + 1,
                         !.downstreamID = "", !.upstreamGroup = "",
                         !.upstreamID = NoUpstream]]
        /\ UNCHANGED <<upstreamTrackers, crashed, handleFrame>>

\* Deferred: t.downstreamTracker.ConnectionEnded(downstreamID); Handle
\* returns.
HandleRelease(h) ==
    LET c == conns[h]
    IN  /\ ~crashed
        /\ c.pc = "release"
        /\ connCounts' = DownstreamConnectionEnded(connCounts, c.downstreamID)
        /\ conns' = [conns EXCEPT ![h] =
               [c EXCEPT !.pc = "returned", !.releases = @ + 1,
                         !.downstreamID = "", !.upstreamGroup = "",
                         !.upstreamID = NoUpstream]]
        /\ UNCHANGED <<upstreamTrackers, crashed, handleFrame>>

\* ------------------------------------------------- the health monitor

monitorFrame == <<staticVars, connCounts, conns, unitVars>>

\* case <-ticker.C: rangeOverConcurrently starts one goroutine per entry
\* of the health map, with the health read under the lock.  Nothing in the
\* code waits for the probes of the previous tick; limit bounds the probes
\* of one upstream that are in flight at once.
TickWithin(limit) ==
    /\ ~crashed
    /\ monitor = "running"
    /\ \A id \in DOMAIN upstreamHealth : Len(probes[id]) < limit
    /\ probes' = [id \in UpstreamIDs |->
           IF id \in DOMAIN upstreamHealth
           THEN Append(probes[id],
                       [pc |-> "check", healthOld |-> upstreamHealth[id],
                        healthNew |-> FALSE])
           ELSE probes[id]]
    /\ tick' = [seen |-> TRUE, started |-> DOMAIN upstreamHealth]
    /\ UNCHANGED <<upstreamTrackers, upstreamHealth, ctxDone, monitor,
                   crashed, probed, monitorFrame>>

\* A tick of the running system.
Tick == TickWithin(MaxProbes)

\* Keeps the health map as it is.
setHealthLost(h, id, health) == h

setHealth(h, id, health) ==
    [u \in (DOMAIN h) \cup {id} |-> IF u = id THEN health ELSE h[u]]

Drop(seq, k) == SubSeq(seq, 1, k - 1) \o SubSeq(seq, k + 1, Len(seq))

\* Takes every finished probe of an unhealthy upstream for a success.
ProbeCheckAnyResult(id, k) ==
    /\ ~crashed
    /\ k \in 1..Len(probes[id])
    /\ probes[id][k].pc = "check"
    /\ id \in DOMAIN upstreams
    /\ \E healthNew \in BOOLEAN :
          /\ probes' = [probes EXCEPT ![id] =
                 IF probes[id][k].healthOld
                 THEN Drop(@, k)
                 ELSE [@ EXCEPT ![k].pc = "mark", ![k].healthNew = TRUE]]
          /\ upstreamHealth' =
                 IF probes[id][k].healthOld
                 THEN upstreamHealth
                 ELSE setHealth(upstreamHealth, id, TRUE)
          /\ probed' = IF healthNew THEN probed \cup {id} ELSE probed
    /\ UNCHANGED <<upstreamTrackers, ctxDone, monitor, tick, monitorFrame,
                   crashed>>

\* healthCheckUpstream returns: the probe dialled the upstream and closed
\* the connection.  When the health did not change the goroutine ends;
\* otherwise it records the new health with setHealth.
ProbeCheck(id, k) ==
    /\ ~crashed
    /\ k \in 1..Len(probes[id])
    /\ probes[id][k].pc = "check"
    /\ IF id \notin DOMAIN upstreams
       THEN \* t.upstreamAddr(id) panics
            /\ crashed' = TRUE
            /\ UNCHANGED <<probes, probed, upstreamHealth>>
       ELSE /\ \E healthNew \in BOOLEAN :
                  /\ probes' = [probes EXCEPT ![id] =
                         IF healthNew = probes[id][k].healthOld
                         THEN Drop(@, k)
                         ELSE [@ EXCEPT ![k].pc = "mark",
                                        ![k].healthNew = healthNew]]
                  /\ upstreamHealth' =
                         IF healthNew = probes[id][k].healthOld
                         THEN upstreamHealth
                         ELSE setHealth(upstreamHealth, id, healthNew)
                  /\ probed' = IF healthNew THEN probed \cup {id} ELSE probed
            /\ UNCHANGED crashed
    /\ UNCHANGED <<upstreamTrackers, ctxDone, monitor, tick, monitorFrame>>

\* UpstreamAvailable or UpstreamUnavailable on the tracker of the group.
ProbeMark(id, k) ==
    /\ ~crashed
    /\ k \in 1..Len(probes[id])
    /\ probes[id][k].pc = "mark"
    /\ LET g == TrackerGroup(id)
       IN  upstreamTrackers' = [upstreamTrackers EXCEPT ![g] =
               IF probes[id][k].healthNew
               THEN UpstreamAvailable(@, id)
               ELSE UpstreamUnavailable(@, id)]
    /\ probes' = [probes EXCEPT ![id] = Drop(@, k)]
    /\ UNCHANGED <<upstreamHealth, ctxDone, monitor, crashed, probed, tick,
                   monitorFrame>>

\* The owner cancels the context passed to Start.
Cancel ==
    /\ ~crashed
    /\ ~ctxDone
    /\ ctxDone' = TRUE
    /\ UNCHANGED <<upstreamTrackers, upstreamHealth, probes, monitor, crashed,
                   probed, tick, monitorFrame>>

\* Returns only once no probe is in flight.
MonitorReturnAfterProbes ==
    /\ ~crashed
    /\ monitor = "running"
    /\ ctxDone
    /\ \A id \in UpstreamIDs : probes[id] = << >>
    /\ monitor' = "returned"
    /\ UNCHANGED <<upstreamTrackers, upstreamHealth, probes, ctxDone, crashed,
                   probed, tick, monitorFrame>>

\* case <-ctx.Done(): routineHealthChecks returns.
MonitorReturn ==
    /\ ~crashed
    /\ monitor = "running"
    /\ ctxDone
    /\ monitor' = "returned"
    /\ UNCHANGED <<upstreamTrackers, upstreamHealth, probes, ctxDone, crashed,
                   probed, tick, monitorFrame>>

Next ==
    \/ \E h \in 1..NumConns, d \in DownstreamIDs, g \in RequestedGroups :
           HandleAdmit(h, d, g)
    \/ \E h \in 1..NumConns : HandleSelect(h)
    \/ \E h \in 1..NumConns : HandleDial(h)
    \/ \E h \in 1..NumConns : HandleEndUpstream(h)
    \/ \E h \in 1..NumConns : HandleRelease(h)
    \/ Tick
    \/ \E id \in UpstreamIDs, k \in 1..MaxProbes : ProbeCheck(id, k)
    \/ \E id \in UpstreamIDs, k \in 1..MaxProbes : ProbeMark(id, k)

\* The running system: concurrent Handle invocations and the health
\* monitor, whose context is not cancelled.
Spec == Init /\ [][Next]_vars

\* The scheduling of the running system: the Go scheduler runs every
\* goroutine that can take a step, and the ticker keeps delivering ticks.
\* Nothing obliges a downstream to connect, so HandleAdmit is not fair.
Fairness ==
    /\ WF_vars(Tick)
    /\ \A id \in UpstreamIDs, k \in 1..MaxProbes :
           WF_vars(ProbeCheck(id, k)) /\ WF_vars(ProbeMark(id, k))
    /\ \A h \in 1..NumConns :
           /\ WF_vars(HandleSelect(h))
           /\ WF_vars(HandleDial(h))
           /\ WF_vars(HandleEndUpstream(h))
           /\ WF_vars(HandleRelease(h))

\* The running system under that scheduling.
SpecFair == Spec /\ Fairness

\* The health monitor alone, with the cancellation of its context.
NextMonitor ==
    \/ TickWithin(MaxOverlap)
    \/ \E id \in UpstreamIDs, k \in 1..MaxOverlap : ProbeCheck(id, k)
    \/ \E id \in UpstreamIDs, k \in 1..MaxOverlap : ProbeMark(id, k)
    \/ Cancel
    \/ MonitorReturn

SpecMonitor == Init /\ [][NextMonitor]_vars

\* The health monitor alone under the scheduling of Go: a select whose
\* ctx.Done() case stays ready takes that case after finitely many rounds.
\* The probes are under no obligation to finish.
SpecMonitorFair == SpecMonitor /\ WF_vars(MonitorReturn)

\* ----------------------------- the admission counter, called directly
\* SpecDownstreamConns: callers invoke the methods of a DownstreamConns
\* in any order, as the tests of package tracker do, each release after
\* an admit of the same id.  connCounts is driven through
\* TryRecordConnection / ConnectionEnded, beginCounts through
\* TryBeginConnection / EndConnection.

limiterFrame == <<staticVars, upstreamTrackers, upstreamHealth, engineVars,
                  trackerUnitVars, componentVars>>

InitLimiter ==
    /\ ups = << >>
    /\ downs = << >>
    /\ downstreams = << >>
    /\ upstreams = << >>
    /\ upstreamTrackers = << >>
    /\ upstreamHealth = << >>
    /\ connCounts = NewDownstreamConns
    /\ EngineIdle
    /\ LimiterUnitIdle
    /\ TrackerUnitIdle
    /\ ComponentIdle

CallTryRecordConnection(id, max) ==
    LET r == TryRecordConnection(connCounts, id, max)
    IN  /\ live["record"][id] < MaxLive
        /\ connCounts' = r.cc
        /\ live' = IF r.ok THEN [live EXCEPT !["record"][id] = @ + 1] ELSE live
        /\ UNCHANGED <<beginCounts, limiterFrame>>

CallDownstreamConnectionEnded(id) ==
    /\ live["record"][id] > 0
    /\ connCounts' = DownstreamConnectionEnded(connCounts, id)
    /\ live' = [live EXCEPT !["record"][id] = @ - 1]
    /\ UNCHANGED <<beginCounts, limiterFrame>>

CallTryBeginConnection(id, max) ==
    LET r == TryBeginConnection(beginCounts, id, max)
    IN  /\ live["begin"][id] < MaxLive
        /\ beginCounts' = r.cc
        /\ live' = IF r.ok THEN [live EXCEPT !["begin"][id] = @ + 1] ELSE live
        /\ UNCHANGED <<connCounts, limiterFrame>>

CallEndConnection(id) ==
    /\ live["begin"][id] > 0
    /\ beginCounts' = EndConnection(beginCounts, id)
    /\ live' = [live EXCEPT !["begin"][id] = @ - 1]
    /\ UNCHANGED <<connCounts, limiterFrame>>

NextLimiter ==
    \/ \E id \in DownstreamIDs, max \in 0..MaxArg : CallTryRecordConnection(id, max)
    \/ \E id \in DownstreamIDs : CallDownstreamConnectionEnded(id)
    \/ \E id \in DownstreamIDs, max \in 0..MaxArg : CallTryBeginConnection(id, max)
    \/ \E id \in DownstreamIDs : CallEndConnection(id)

SpecDownstreamConns == InitLimiter /\ [][NextLimiter]_vars

\* ------------------------------------------------------ dialRetryBackoff
\* SpecDial: Handle invocations and health probes call dialRetryBackoff;
\* the dialled address accepts or refuses each connection attempt.

dialFrame == <<staticVars, upstreamTrackers, upstreamHealth, connCounts,
               engineVars, limiterUnitVars, trackerUnitVars, pump, server,
               locks>>

InitDial == InitLimiter

\* dialRetryBackoff(addr) is called with the RetryAttempts of the config.
DialCall(k, addr, attempts) ==
    /\ dial[k].pc \in {"idle", "returned"}
    /\ dial' = [dial EXCEPT ![k] =
           [DialIdle EXCEPT !.pc = "attempt", !.addr = addr,
                            !.attempts = attempts]]
    /\ UNCHANGED dialFrame

\* Makes one attempt more than RetryAttempts.
DialAttemptOneMore(k) ==
    LET d == dial[k]
    IN  /\ d.pc = "attempt"
        /\ IF d.i <= d.attempts
           THEN \E ok \in BOOLEAN :
                    dial' = [dial EXCEPT ![k] =
                        IF ok
                        THEN [d EXCEPT !.pc = "returned", !.dials = @ + 1,
                                       !.result = "conn"]
                        ELSE [d EXCEPT !.pc = "backoff", !.dials = @ + 1]]
           ELSE dial' = [dial EXCEPT ![k] =
                    [d EXCEPT !.pc = "returned",
                              !.result = "errorAllAttemptsFailed"]]
        /\ UNCHANGED dialFrame

\* The loop condition i < attempts and, when it holds, net.DialTCP: with a
\* connection dialRetryBackoff returns it, otherwise it logs and starts the
\* backoff timer.  When the condition fails it returns
\* errorAllAttemptsFailed.
DialAttempt(k) ==
    LET d == dial[k]
    IN  /\ d.pc = "attempt"
        /\ IF d.i < d.attempts
           THEN \E ok \in BOOLEAN :
                    dial' = [dial EXCEPT ![k] =
                        IF ok
                        THEN [d EXCEPT !.pc = "returned", !.dials = @ + 1,
                                       !.result = "conn"]
                        ELSE [d EXCEPT !.pc = "backoff", !.dials = @ + 1]]
           ELSE dial' = [dial EXCEPT ![k] =
                    [d EXCEPT !.pc = "returned",
                              !.result = "errorAllAttemptsFailed"]]
        /\ UNCHANGED dialFrame

\* <-t.C: the backoff timer fires; i++.
DialBackoff(k) ==
    /\ dial[k].pc = "backoff"
    /\ dial' = [dial EXCEPT ![k].pc = "attempt", ![k].i = @ + 1,
                            ![k].sleeps = @ + 1]
    /\ UNCHANGED dialFrame

NextDial ==
    \/ \E k \in 1..NumDialers, addr \in {"u1", "u2"},
          attempts \in -1..MaxAttempts : DialCall(k, addr, attempts)
    \/ \E k \in 1..NumDialers : DialAttempt(k)
    \/ \E k \in 1..NumDialers : DialBackoff(k)

SpecDial == InitDial /\ [][NextDial]_vars

\* net.DialTCP returns and a started timer fires.
SpecDialFair ==
    SpecDial /\ \A k \in 1..NumDialers :
                    WF_vars(DialAttempt(k)) /\ WF_vars(DialBackoff(k))

\* ---------------------------------------------------- proxy.Bidirectional
\* SpecPump: Bidirectional runs over two network connections, as Handle
\* calls it.  Close closes the connection for both directions: a Read of a
\* connection that was closed locally returns net.ErrClosed.

pumpFrame == <<staticVars, upstreamTrackers, upstreamHealth, connCounts,
               engineVars, limiterUnitVars, trackerUnitVars, dial, server,
               locks>>

\* The byte streams that the two peers send.
DownStreams == {SubSeq(<<"a", "b", "c">>, 1, n) : n \in 0..MaxStream}

UpStreams == {SubSeq(<<"x", "y", "z">>, 1, n) : n \in 0..MaxStream}

\* wg.Add(2) and the two go statements.
BidirectionalCall(downStream, upStream) ==
    /\ pump.pc = "idle"
    /\ pump' = StartedPump(downStream, upStream)
    /\ UNCHANGED pumpFrame

\* The results of w.Close() on connection c: the connection afterwards and
\* the error returned.
Closings(c) ==
    IF c.closed
    THEN {[c |-> [c EXCEPT !.closes = @ + 1], err |-> "ErrClosed"]}
    ELSE {[c |-> [c EXCEPT !.closed = TRUE, !.closes = @ + 1], err |-> e] :
             e \in {"nil", "closeErr"}}

\* Returns without closing the sink.
ReturnedLeavingOpen(p, dir, writeErr) ==
    {[p EXCEPT !.loop[dir].pc = "done",
               !.loop[dir].buf = << >>,
               !.loop[dir].writeErr = writeErr,
               !.wg = @ - 1]}

\* return writeErr, w.Close(); the results are stored and wg.Done() runs.
Returned(p, dir, writeErr) ==
    {[p EXCEPT !.loop[dir].pc = "done",
               !.loop[dir].buf = << >>,
               !.loop[dir].readErr = "nil",
               !.loop[dir].writeErr = writeErr,
               !.loop[dir].closeErr = r.err,
               !.sock[Sink(dir)] = r.c,
               !.wg = @ - 1] : r \in Closings(p.sock[Sink(dir)])}

\* The errors an io.Reader may return next to the n > 0 bytes of one Read
\* that leaves rest unread: none, io.EOF with the last bytes of a stream
\* that the peer closed, or the error of a broken connection.
ReadErrs(src, rest) ==
    {"nil"} \cup (IF src.eof /\ rest = << >> THEN {"EOF"} ELSE {})
            \cup (IF src.reset THEN {"readErr"} ELSE {})

\* r.Read(buff) returns: with net.ErrClosed when the source was closed
\* locally, with some of the bytes that have arrived (and possibly an error
\* next to them), with io.EOF when the peer has closed and everything was
\* read, or with another error.  With bytes the loop goes on to write them;
\* without bytes io.EOF and net.ErrClosed end it with a nil error, another
\* error ends it with that error.
LoopRead(dir) ==
    LET l == pump.loop[dir]
        src == pump.sock[Source(dir)]
    IN  /\ pump.pc = "wait"
        /\ l.pc = "read"
        /\ \/ /\ src.closed
              /\ pump' \in Returned(pump, dir, "nil")
           \/ /\ ~src.closed
              /\ \E n \in 1..Len(src.in) :
                  \E e \in ReadErrs(src, SubSeq(src.in, n + 1, Len(src.in))) :
                    pump' = [pump EXCEPT
                        !.loop[dir].pc = "write",
                        !.loop[dir].readErr = e,
                        !.loop[dir].buf = SubSeq(src.in, 1, n),
                        !.loop[dir].got = @ \o SubSeq(src.in, 1, n),
                        !.sock[Source(dir)].in =
                            SubSeq(src.in, n + 1, Len(src.in))]
           \/ /\ ~src.closed
              /\ src.in = << >>
              /\ src.eof
              /\ pump' \in Returned(pump, dir, "nil")
           \/ /\ ~src.closed
              /\ src.reset
              /\ pump' \in Returned(pump, dir, "readErr")
        /\ UNCHANGED pumpFrame

\* Goes on reading after a Write that wrote only some of the bytes.
LoopWriteShort(dir) ==
    LET l == pump.loop[dir]
        snk == pump.sock[Sink(dir)]
    IN  /\ pump.pc = "wait"
        /\ l.pc = "write"
        /\ \E k \in 0..Len(l.buf) :
              pump' = [pump EXCEPT
                  !.loop[dir].pc = "read",
                  !.loop[dir].buf = << >>,
                  !.sock[Sink(dir)].out = @ \o SubSeq(l.buf, 1, k)]
        /\ UNCHANGED pumpFrame

\* w.Write(b) returns: without error when all of b was written, and with
\* an error otherwise, after which the loop returns that error.  The
\* result of Write is assigned to the err of the Read: after a Write
\* without error err is nil and the loop reads again.
LoopWrite(dir) ==
    LET l == pump.loop[dir]
        snk == pump.sock[Sink(dir)]
    IN  /\ pump.pc = "wait"
        /\ l.pc = "write"
        /\ \/ /\ ~snk.closed
              /\ pump' = [pump EXCEPT
                     !.loop[dir].pc = "read",
                     !.loop[dir].buf = << >>,
                     !.sock[Sink(dir)].out = @ \o l.buf]
           \/ \E k \in 0..(Len(l.buf) - 1) :
                 /\ snk.closed => k = 0
                 /\ pump' \in Returned(
                        [pump EXCEPT !.sock[Sink(dir)].out =
                                         @ \o SubSeq(l.buf, 1, k)],
                        dir, "writeErr")
        /\ UNCHANGED pumpFrame

\* The peer of a connection closes it.
PeerClose(sd) ==
    /\ pump.pc = "wait"
    /\ ~pump.sock[sd].eof
    /\ pump' = [pump EXCEPT !.sock[sd].eof = TRUE]
    /\ UNCHANGED pumpFrame

\* A connection breaks.
PeerReset(sd) ==
    /\ pump.pc = "wait"
    /\ ~pump.sock[sd].reset
    /\ pump' = [pump EXCEPT !.sock[sd].reset = TRUE]
    /\ UNCHANGED pumpFrame

\* Returns when the first loop has returned.
BidirectionalReturnFirst ==
    /\ pump.pc = "wait"
    /\ pump.wg <= 1
    /\ pump' = [pump EXCEPT
           !.pc = "returned",
           !.ret = <<pump.loop["toUp"].writeErr, pump.loop["toUp"].closeErr,
                     pump.loop["toDown"].writeErr,
                     pump.loop["toDown"].closeErr>>]
    /\ UNCHANGED pumpFrame

\* wg.Wait() returns; return toUpErr, toUpCloseErr, toDownErr,
\* toDownCloseErr.
BidirectionalReturn ==
    /\ pump.pc = "wait"
    /\ pump.wg = 0
    /\ pump' = [pump EXCEPT
           !.pc = "returned",
           !.ret = <<pump.loop["toUp"].writeErr, pump.loop["toUp"].closeErr,
                     pump.loop["toDown"].writeErr,
                     pump.loop["toDown"].closeErr>>]
    /\ UNCHANGED pumpFrame

NextPump ==
    \/ \E ds \in DownStreams, us \in UpStreams : BidirectionalCall(ds, us)
    \/ \E dir \in Dirs : LoopRead(dir)
    \/ \E dir \in Dirs : LoopWrite(dir)
    \/ \E sd \in Sides : PeerClose(sd)
    \/ \E sd \in Sides : PeerReset(sd)
    \/ BidirectionalReturn

InitPump == InitLimiter

SpecPump == InitPump /\ [][NextPump]_vars

\* Both loops are goroutines that run when they can: a Read returns once
\* the connection has bytes, an end or an error, and a Write returns.
SpecPumpFair ==
    /\ SpecPump
    /\ \A dir \in Dirs : WF_vars(LoopRead(dir)) /\ WF_vars(LoopWrite(dir))
    /\ WF_vars(BidirectionalReturn)

\* --------------------------------------- one Handle with its real pump
\* SpecSession: invocations of Handle one after the other, each running
\* dialRetryBackoff and then proxy.Bidirectional on the two connections,
\* next to the health monitor.

\* The longest stream a peer sends in a session.
MaxSessionStream == 1

SessionDownStreams == {SubSeq(<<"a", "b", "c">>, 1, n) : n \in 0..MaxSessionStream}

SessionUpStreams == {SubSeq(<<"x", "y", "z">>, 1, n) : n \in 0..MaxSessionStream}

\* dialRetryBackoff returns; on success Bidirectional is called on
\* downstreamConn and upstreamConn.
SessionDial(h) ==
    \E ds \in SessionDownStreams, us \in SessionUpStreams :
        HandleDialThen(h, StartedPump(ds, us))

\* Goes on without waiting for Bidirectional to return.
SessionEndEarly(h) == HandleEndUpstreamThen(h, pump)

\* errors.Is(err, net.ErrClosed): true of net.ErrClosed and of an error
\* that wraps it.
IsErrClosed(err) == err \in {"ErrClosed", "wrappedErrClosed"}

\* What Handle logs about the four results of Bidirectional: the message
\* of the branch taken, or "none".
Report(ret) ==
    LET toUpErr == ret[1]
        toUpCloseErr == ret[2]
        toDownErr == ret[3]
        toDownCloseErr == ret[4]
    IN  IF toUpErr # "nil" /\ toDownErr # "nil"
        THEN "proxying both directions"
        ELSE IF toUpErr # "nil" /\ toDownErr = "nil"
        THEN "proxying to upstream"
        ELSE IF toUpErr = "nil" /\ toDownErr # "nil"
        THEN "proxying from upstream"
        ELSE IF toUpCloseErr # "nil" /\ toDownCloseErr # "nil"
        THEN "closing both directions"
        ELSE IF toUpCloseErr # "nil" /\ toDownCloseErr = "nil"
        THEN IF ~IsErrClosed(toUpCloseErr) THEN "closing upstream" ELSE "none"
        ELSE IF toUpCloseErr = "nil" /\ toDownCloseErr # "nil"
        THEN IF ~IsErrClosed(toDownCloseErr) THEN "closing downstream"
             ELSE "none"
        ELSE "none"

\* The pump after Handle has logged about its results.
Logged(p) == [p EXCEPT !.log = Report(p.ret)]

\* Handle goes on once Bidirectional has returned (or right after a failed
\* dial): the outcomes are logged and the deferred calls run.
SessionEnd(h) ==
    /\ conns[h].pc = "pump" => pump.pc = "returned"
    /\ HandleEndUpstreamThen(h, IF conns[h].pc = "pump" THEN Logged(pump)
                                ELSE pump)

NextSession ==
    \/ \E d \in DownstreamIDs, g \in RequestedGroups : HandleAdmit(1, d, g)
    \/ HandleSelect(1)
    \/ SessionDial(1)
    \/ \E dir \in Dirs : LoopRead(dir)
    \/ \E dir \in Dirs : LoopWrite(dir)
    \/ \E sd \in Sides : PeerClose(sd)
    \/ \E sd \in Sides : PeerReset(sd)
    \/ BidirectionalReturn
    \/ SessionEnd(1)
    \/ HandleRelease(1)
    \/ Tick
    \/ \E id \in UpstreamIDs, k \in 1..MaxProbes : ProbeCheck(id, k)
    \/ \E id \in UpstreamIDs, k \in 1..MaxProbes : ProbeMark(id, k)

\* A load balancer in front of one upstream.
InitSession ==
    /\ ups = [u \in {"u1"} |-> "g1"]
    /\ downs \in DownsChoices
    /\ \E t \in {NewTrafficker(downs, ups), TraffickerWithTables(downs, ups)} :
           /\ downstreams = t.downstreams
           /\ upstreams = t.upstreams
           /\ upstreamTrackers = t.upstreamTrackers
           /\ upstreamHealth = t.upstreamHealth
           /\ connCounts = t.downstreamTracker
    /\ EngineIdle
    /\ LimiterUnitIdle
    /\ TrackerUnitIdle
    /\ ComponentIdle

SpecSession == InitSession /\ [][NextSession]_vars

\* ------------------------------------ Handle on the results of the pump
\* SpecReport: Bidirectional, for whatever connections it was given,
\* returns four errors, and Handle logs about them.

\* The errors a loop returns for its data transfer and for w.Close().
TransferErrs == {"nil", "readErr", "writeErr"}

CloseErrs == {"nil", "ErrClosed", "wrappedErrClosed", "closeErr"}

\* proxy.Bidirectional returns ret and Handle logs.
ReportOutcomes(ret) ==
    /\ pump.pc \in {"idle", "returned"}
    /\ pump' = Logged([PumpIdle EXCEPT !.pc = "returned", !.ret = ret])
    /\ UNCHANGED pumpFrame

NextReport ==
    \E toUpErr \in TransferErrs, toUpCloseErr \in CloseErrs,
       toDownErr \in TransferErrs, toDownCloseErr \in CloseErrs :
        ReportOutcomes(<<toUpErr, toUpCloseErr, toDownErr, toDownCloseErr>>)

InitReport == InitLimiter

SpecReport == InitReport /\ [][NextReport]_vars

\* ------------------------------------------------------- the mutexes
\* SpecLocks: every goroutine as its sequence of Lock, Unlock (with the
\* critical section before it) and blocking calls.  A step is a record
\* [op, mutex, next]: op is "lock", "unlock", "block" (a call that dials,
\* sleeps, reads, writes or closes a socket, or waits on a channel) or
\* "idle"; next holds the positions that may follow.  The mutex "tracker"
\* stands for the UpstreamConns.mu of the group of the goroutine.

StepOf(op, mutex, next) == [op |-> op, mutex |-> mutex, next |-> next]

\* Trafficker.Handle.
HandleStep(pc) ==
    CASE pc = "idle" -> StepOf("idle", "", {"admit.lock"})
      [] pc = "admit.lock" -> StepOf("lock", "limiter", {"admit.unlock"})
      [] pc = "admit.unlock" ->
             StepOf("unlock", "limiter", {"refused.close", "select.lock"})
      [] pc = "refused.close" -> StepOf("block", "", {"idle"})
      [] pc = "select.lock" -> StepOf("lock", "tracker", {"select.unlock"})
      [] pc = "select.unlock" ->
             StepOf("unlock", "tracker", {"none.close", "dial"})
      [] pc = "none.close" -> StepOf("block", "", {"release.lock"})
      [] pc = "dial" -> StepOf("block", "", {"failed.close", "pump"})
      [] pc = "failed.close" -> StepOf("block", "", {"demote.lock"})
      [] pc = "demote.lock" -> StepOf("lock", "tracker", {"demote.unlock"})
      [] pc = "demote.unlock" -> StepOf("unlock", "tracker", {"ended.lock"})
      [] pc = "pump" -> StepOf("block", "", {"ended.lock"})
      [] pc = "ended.lock" -> StepOf("lock", "tracker", {"ended.unlock"})
      [] pc = "ended.unlock" -> StepOf("unlock", "tracker", {"release.lock"})
      [] pc = "release.lock" -> StepOf("lock", "limiter", {"release.unlock"})
      [] pc = "release.unlock" -> StepOf("unlock", "limiter", {"idle"})

\* Calls the tracker inside the critical section of setHealth.
ProbeStepNested(pc) ==
    CASE pc = "idle" -> StepOf("idle", "", {})
      [] pc = "check" -> StepOf("block", "", {"idle", "set.lock"})
      [] pc = "set.lock" -> StepOf("lock", "health", {"mark.lock"})
      [] pc = "mark.lock" -> StepOf("lock", "tracker", {"mark.unlock"})
      [] pc = "mark.unlock" -> StepOf("unlock", "tracker", {"set.unlock"})
      [] pc = "set.unlock" -> StepOf("unlock", "health", {"idle"})

\* The callback that rangeOverConcurrently starts: healthCheckUpstream,
\* then for a changed health setHealth and UpstreamAvailable or
\* UpstreamUnavailable.
ProbeStep(pc) ==
    CASE pc = "idle" -> StepOf("idle", "", {})
      [] pc = "check" -> StepOf("block", "", {"idle", "set.lock"})
      [] pc = "set.lock" -> StepOf("lock", "health", {"set.unlock"})
      [] pc = "set.unlock" -> StepOf("unlock", "health", {"mark.lock"})
      [] pc = "mark.lock" -> StepOf("lock", "tracker", {"mark.unlock"})
      [] pc = "mark.unlock" -> StepOf("unlock", "tracker", {"idle"})

\* routineHealthChecks: the select, and rangeOverConcurrently on a tick.
MonitorStep(pc) ==
    CASE pc = "select" -> StepOf("block", "", {"range.lock", "returned"})
      [] pc = "range.lock" -> StepOf("lock", "health", {"range.unlock"})
      [] pc = "range.unlock" -> StepOf("unlock", "health", {"select"})
      [] pc = "returned" -> StepOf("idle", "", {})

\* The step a goroutine is at.
Step(t) ==
    LET pc == locks.task[t].pc
    IN  IF t \in HandleTasks THEN HandleStep(pc)
        ELSE IF t \in ProbeTasks THEN ProbeStep(pc)
        ELSE MonitorStep(pc)

\* The mutex of the step a goroutine is at.
MutexOf(t) ==
    IF Step(t).mutex = "tracker" THEN locks.task[t].group ELSE Step(t).mutex

Held(t) == {m \in Mutexes : locks.holder[m] = t}

IdleProbes == {t \in ProbeTasks : locks.task[t].pc = "idle"}

\* The idle probe goroutine with the lowest number among ts.
FirstOf(ts) == CHOOSE t \in ts : \A u \in ts : t[2] <= u[2]

\* for id, health := range h.upstreams { go f(id, health) }: one probe
\* for the one upstream.
Started(task) ==
    LET p1 == FirstOf(IdleProbes)
    IN  [t \in Tasks |->
            IF t = p1 THEN [pc |-> "check", group |-> "g1"] ELSE task[t]]

locksFrame == <<staticVars, upstreamTrackers, upstreamHealth, connCounts,
                engineVars, limiterUnitVars, trackerUnitVars, dial, pump,
                server>>

\* Handle is called for a downstream that asks for group g.
TaskCall(t, g) ==
    /\ t \in HandleTasks
    /\ locks.task[t].pc = "idle"
    /\ locks' = [locks EXCEPT !.task[t] = [pc |-> "admit.lock", group |-> g]]
    /\ UNCHANGED locksFrame

\* mu.Lock() returns.
TaskLock(t) ==
    /\ Step(t).op = "lock"
    /\ locks.holder[MutexOf(t)] = NoTask
    /\ \E pc \in Step(t).next :
           locks' = [locks EXCEPT !.holder[MutexOf(t)] = t,
                                  !.task[t].pc = pc]
    /\ UNCHANGED locksFrame

\* The critical section runs and the deferred mu.Unlock(); in
\* rangeOverConcurrently the critical section starts the probes.
TaskUnlock(t) ==
    /\ Step(t).op = "unlock"
    /\ \E pc \in Step(t).next :
           locks' = [holder |-> [locks.holder EXCEPT ![MutexOf(t)] = NoTask],
                     task |-> [(IF t = MonitorTask THEN Started(locks.task)
                                ELSE locks.task) EXCEPT ![t].pc = pc]]
    /\ UNCHANGED locksFrame

\* A blocking call returns.  A tick is taken when there is a goroutine
\* left for its probe.
TaskBlock(t) ==
    /\ Step(t).op = "block"
    /\ \E pc \in Step(t).next :
           /\ (t = MonitorTask /\ pc = "range.lock") =>
                  Cardinality(IdleProbes) >= Cardinality(LockGroups)
           /\ locks' = [locks EXCEPT !.task[t].pc = pc]
    /\ UNCHANGED locksFrame

NextLocks ==
    \/ \E t \in HandleTasks, g \in LockGroups : TaskCall(t, g)
    \/ \E t \in Tasks : TaskLock(t)
    \/ \E t \in Tasks : TaskUnlock(t)
    \/ \E t \in Tasks : TaskBlock(t)

InitLocks == InitLimiter

SpecLocks == InitLocks /\ [][NextLocks]_vars

\* sync.Mutex hands a mutex to a goroutine that keeps waiting for it
\* (starvation mode), and a goroutine inside a critical section runs on.
SpecLocksFair ==
    SpecLocks /\ \A t \in Tasks : SF_vars(TaskLock(t)) /\ WF_vars(TaskUnlock(t))

\* ---------------------------------------------------- Server.handle
\* SpecServer: the accept loop starts one handle goroutine per connection.

\* s.downstreamAuthz as NewServer builds it: the registered downstreams and
\* the groups each may use.
downstreamAuthz == [d \in DownstreamIDs |->
                       IF d = "d1" THEN {"g1"} ELSE {"g0", "g1"}]

\* The common names clients present; dx is not registered.
CommonNames == DownstreamIDs \cup {"dx"}

foundIn(target, ss) == target \in ss

\* nil when authorized.
downstreamAuthorized(downstreamID, upstreamGroup) ==
    IF downstreamID \notin DOMAIN downstreamAuthz THEN "not found"
    ELSE IF ~foundIn(upstreamGroup, downstreamAuthz[downstreamID])
         THEN "unauthorized"
         ELSE "nil"

serverFrame == <<staticVars, upstreamTrackers, upstreamHealth, connCounts,
                 conns, probes, ctxDone, monitor, probed, tick,
                 limiterUnitVars, trackerUnitVars, dial, pump, locks>>

\* listener.Accept() returns a connection; go s.handle(conn).
ServerAccept(k) ==
    /\ ~crashed
    /\ server[k].pc \in {"idle", "returned"}
    /\ server' = [server EXCEPT ![k] = [ServerIdle EXCEPT !.pc = "handshake"]]
    /\ UNCHANGED <<crashed, serverFrame>>

\* connTLS.Handshake() returns.  It succeeds for a client that proves the
\* key of a certificate the verification accepts.  It fails before the
\* ClientHello was read (hello stays nil), after the ClientHello and before
\* a certificate was accepted (no peer certificates), or after the
\* certificate chain was accepted and stored: in VerifyConnection or at the
\* proof of the key (CertificateVerify).
ServerHandshake(k) ==
    /\ ~crashed
    /\ server[k].pc = "handshake"
    /\ \/ \E cn \in CommonNames, sn \in RequestedGroups :
              server' = [server EXCEPT ![k] =
                  [@ EXCEPT !.pc = "proceed", !.handshake = "ok",
                            !.hello = TRUE, !.certs = TRUE,
                            !.serverName = sn, !.commonName = cn]]
       \/ server' = [server EXCEPT ![k] =
              [@ EXCEPT !.pc = "proceed", !.handshake = "failed"]]
       \/ \E sn \in RequestedGroups :
              server' = [server EXCEPT ![k] =
                  [@ EXCEPT !.pc = "proceed", !.handshake = "failed",
                            !.hello = TRUE, !.serverName = sn]]
       \/ \E cn \in CommonNames, sn \in RequestedGroups :
              server' = [server EXCEPT ![k] =
                  [@ EXCEPT !.pc = "proceed", !.handshake = "failed",
                            !.hello = TRUE, !.certs = TRUE,
                            !.serverName = sn, !.commonName = cn]]
    /\ UNCHANGED <<crashed, serverFrame>>

\* The rest of handle up to the call of Trafficker.Handle: a handshake
\* error is logged and handle goes on.  hello.ServerName panics on a nil
\* hello, PeerCertificates[0] on an empty slice; otherwise the common name
\* and the server name are authorized and, without error, passed to
\* Trafficker.Handle with connTLS.NetConn().
ServerProceed(k) ==
    LET sv == server[k]
    IN  /\ ~crashed
        /\ sv.pc = "proceed"
        /\ IF ~sv.hello \/ ~sv.certs
           THEN /\ server' = [server EXCEPT ![k] = [sv EXCEPT !.pc = "panicked"]]
                /\ crashed' = TRUE
           ELSE IF downstreamAuthorized(sv.commonName, sv.serverName) # "nil"
           THEN /\ server' = [server EXCEPT ![k] = [sv EXCEPT !.pc = "returned"]]
                /\ UNCHANGED crashed
           ELSE /\ server' = [server EXCEPT ![k] =
                       [sv EXCEPT !.pc = "handle", !.handed = TRUE]]
                /\ UNCHANGED crashed
        /\ UNCHANGED serverFrame

\* Trafficker.Handle returns, and handle with it.
ServerReturn(k) ==
    /\ ~crashed
    /\ server[k].pc = "handle"
    /\ server' = [server EXCEPT ![k] = [@ EXCEPT !.pc = "returned"]]
    /\ UNCHANGED <<crashed, serverFrame>>

NextServer ==
    \/ \E k \in 1..NumAccepts : ServerAccept(k)
    \/ \E k \in 1..NumAccepts : ServerHandshake(k)
    \/ \E k \in 1..NumAccepts : ServerProceed(k)
    \/ \E k \in 1..NumAccepts : ServerReturn(k)

InitServer == InitLimiter

SpecServer == InitServer /\ [][NextServer]_vars

\* ------------------------------------- the tracker API, called directly
\* SpecUpstreamConns: callers invoke the four methods of one UpstreamConns
\* in any order, as upstream_test.go does; ConnectionEnded(id) is called
\* only for a connection that NextAvailableUpstream began.

InHeap(tr) == {tr.pq[k] : k \in 1..Len(tr.pq)}

NoRun == [active |-> FALSE, base |-> 0, n |-> 0]

\* All upstreams of the heap are at one connCount.
Level(tr) ==
    /\ Len(tr.pq) > 0
    /\ \A u, v \in InHeap(tr) :
           tr.upstreams[u].connCount = tr.upstreams[v].connCount

StartRun(tr) ==
    IF Level(tr)
    THEN [active |-> TRUE, base |-> tr.upstreams[tr.pq[1]].connCount, n |-> 0]
    ELSE NoRun

InitUnit ==
    /\ ups = [u \in UpstreamIDs |-> UnitGroup]
    /\ downs = << >>
    /\ downstreams = << >>
    /\ upstreams = << >>
    /\ upstreamTrackers = [g \in {UnitGroup} |-> NewUpstreamConns(UpstreamIDs)]
    /\ upstreamHealth = << >>
    /\ connCounts = << >>
    /\ EngineIdle
    /\ LimiterUnitIdle
    /\ TrackerUnitIdle
    /\ ComponentIdle

CallNextAvailableUpstream ==
    LET tr == upstreamTrackers[UnitGroup]
        r == NextAvailableUpstream(tr)
    IN  /\ r.id # NoUpstream => open[r.id] < MaxOpen
        /\ upstreamTrackers' = [upstreamTrackers EXCEPT ![UnitGroup] = r.tr]
        /\ open' = IF r.id = NoUpstream THEN open
                   ELSE [open EXCEPT ![r.id] = @ + 1]
        /\ last' = [op |-> "next", id |-> r.id,
                    c |-> IF r.id = NoUpstream THEN 0
                          ELSE tr.upstreams[r.id].connCount,
                    index |-> IF r.id = NoUpstream THEN -1
                              ELSE tr.upstreams[r.id].index]
        /\ \/ /\ run.active
              /\ r.id # NoUpstream
              /\ run' = [run EXCEPT !.n = @ + 1]
           \/ run' = StartRun(r.tr)
        /\ UNCHANGED <<traffickerVars, marked>>

CallConnectionEnded(id) ==
    LET tr == upstreamTrackers[UnitGroup]
        t1 == ConnectionEnded(tr, id)
    IN  /\ open[id] > 0
        /\ upstreamTrackers' = [upstreamTrackers EXCEPT ![UnitGroup] = t1]
        /\ open' = [open EXCEPT ![id] = @ - 1]
        /\ last' = [op |-> "ended", id |-> id,
                    c |-> tr.upstreams[id].connCount,
                    index |-> tr.upstreams[id].index]
        /\ run' = StartRun(t1)
        /\ UNCHANGED <<traffickerVars, marked>>

CallUpstreamAvailable(id) ==
    LET tr == upstreamTrackers[UnitGroup]
        t1 == UpstreamAvailable(tr, id)
    IN  /\ upstreamTrackers' = [upstreamTrackers EXCEPT ![UnitGroup] = t1]
        /\ marked' = [marked EXCEPT ![id] = "available"]
        /\ last' = [op |-> "available", id |-> id,
                    c |-> tr.upstreams[id].connCount,
                    index |-> tr.upstreams[id].index]
        /\ run' = StartRun(t1)
        /\ UNCHANGED <<traffickerVars, open>>

CallUpstreamUnavailable(id) ==
    LET tr == upstreamTrackers[UnitGroup]
        t1 == UpstreamUnavailable(tr, id)
    IN  /\ upstreamTrackers' = [upstreamTrackers EXCEPT ![UnitGroup] = t1]
        /\ marked' = [marked EXCEPT ![id] = "unavailable"]
        /\ last' = [op |-> "unavailable", id |-> id,
                    c |-> tr.upstreams[id].connCount,
                    index |-> tr.upstreams[id].index]
        /\ run' = StartRun(t1)
        /\ UNCHANGED <<traffickerVars, open>>

NextUnit ==
    \/ CallNextAvailableUpstream
    \/ \E id \in UpstreamIDs : CallConnectionEnded(id)
    \/ \E id \in UpstreamIDs : CallUpstreamAvailable(id)
    \/ \E id \in UpstreamIDs : CallUpstreamUnavailable(id)

SpecUpstreamConns == InitUnit /\ [][NextUnit]_vars

\* ------------------------------------------------ claims on the tracker

UnitTracker == upstreamTrackers[UnitGroup]

CountOf(u) == UnitTracker.upstreams[u].connCount

RECURSIVE SumCounts(_)
SumCounts(ids) ==
    IF ids = {} THEN 0
    ELSE LET u == CHOOSE x \in ids : TRUE
         IN  CountOf(u) + SumCounts(ids \ {u})

\* C4: when NextAvailableUpstream returns U, the connCount U had before the
\* increment is at most the connCount of every other upstream in the heap,
\* and U's connCount is that count plus one.
C4_LeastConnections ==
    (last.op = "next" /\ last.id # NoUpstream) =>
        /\ CountOf(last.id) = last.c + 1
        /\ \A v \in InHeap(UnitTracker) \ {last.id} : last.c <= CountOf(v)

C4_Witness ==
    /\ last.op = "next"
    /\ last.id # NoUpstream
    /\ last.c > 0
    /\ Cardinality(InHeap(UnitTracker)) = 3
    /\ \E v \in InHeap(UnitTracker) : CountOf(v) > last.c + 1

\* C5: in a run of n NextAvailableUpstream calls and no other call that
\* starts with all available upstreams at one connCount, the connCounts of
\* any two of them differ by at most 1 and sum to the initial sum plus n.
C5_Balanced ==
    run.active =>
        /\ \A u, v \in InHeap(UnitTracker) : CountOf(u) - CountOf(v) <= 1
        /\ SumCounts(InHeap(UnitTracker)) =
               Cardinality(InHeap(UnitTracker)) * run.base + run.n

C5_Witness ==
    /\ run = [active |-> TRUE, base |-> 0, n |-> 10]
    /\ Cardinality(InHeap(UnitTracker)) = 2
    /\ \A u \in InHeap(UnitTracker) : CountOf(u) = 5

\* C6: NextAvailableUpstream never returns an upstream whose latest
\* availability mark is UpstreamUnavailable.
C6_UnavailableNotSelected ==
    (last.op = "next" /\ last.id # NoUpstream) =>
        marked[last.id] # "unavailable"

C6_Witness ==
    /\ last.op = "next"
    /\ last.id # NoUpstream
    /\ \E u \in UpstreamIDs :
           /\ marked[u] = "unavailable"
           /\ CountOf(u) < last.c
           /\ open[u] > 0

\* C7 as stated: UpstreamUnavailable keeps the connCount, ConnectionEnded
\* of an upstream outside the heap decrements it by one, and right after
\* UpstreamAvailable(U) inserted U, U is at the root (the next select
\* returns it) exactly when its count is a minimum of the heap.
C7_PreservedCountKeepsOrder ==
    /\ last.op = "unavailable" => CountOf(last.id) = last.c
    /\ (last.op = "ended" /\ last.index < 0) => CountOf(last.id) = last.c - 1
    /\ (last.op = "available" /\ last.index < 0) =>
           /\ CountOf(last.id) = last.c
           /\ peek(UnitTracker) = last.id <=>
                  \A v \in InHeap(UnitTracker) : CountOf(last.id) <= CountOf(v)

\* C7 amended: as above, but U is at the root exactly when its count is
\* smaller than the count of every other upstream of the heap.
C7_PreservedCountStrict ==
    /\ last.op = "unavailable" => CountOf(last.id) = last.c
    /\ (last.op = "ended" /\ last.index < 0) => CountOf(last.id) = last.c - 1
    /\ (last.op = "available" /\ last.index < 0) =>
           /\ CountOf(last.id) = last.c
           /\ peek(UnitTracker) = last.id <=>
                  \A v \in InHeap(UnitTracker) \ {last.id} :
                      CountOf(last.id) < CountOf(v)

C7_Witness ==
    /\ last.op = "available"
    /\ last.index < 0
    /\ last.c = 1
    /\ peek(UnitTracker) = last.id
    /\ \E v \in InHeap(UnitTracker) : CountOf(v) = 3

\* ------------------------------------------------- claims on the engine

InFlight == {"select", "dial", "pump", "endUpstream", "release"}

\* A Handle invocation between its successful admit and its release.
Admitted(h) == conns[h].pc \in InFlight

\* A Handle invocation between its select and its ConnectionEnded.
Holding(h, u) ==
    /\ conns[h].pc \in {"dial", "pump", "endUpstream"}
    /\ conns[h].upstreamID = u

Entries == UNION {{<<g, u>> : u \in DOMAIN upstreamTrackers[g].upstreams} :
                     g \in DOMAIN upstreamTrackers}

\* C1: a Handle invocation never releases or ends more than it admitted or
\* selected, and once it has returned (or panicked) it has released exactly
\* as often as it was admitted (once or never) and has called the upstream
\* ConnectionEnded exactly as often as it selected (once or never).
C1_Conservation ==
    \A h \in 1..NumConns :
        LET c == conns[h]
        IN  /\ c.releases <= c.admits /\ c.admits <= 1
            /\ c.ends <= c.selects /\ c.selects <= c.admits
            /\ c.pc \in {"returned", "panicked"} =>
                   c.releases = c.admits /\ c.ends = c.selects
            /\ c.pc = "release" => c.ends = c.selects

C1_Witness ==
    /\ \E h \in 1..NumConns :
           /\ conns[h].pc = "returned"
           /\ conns[h].demoted
           /\ conns[h].ends = 1
           /\ conns[h].releases = 1
    /\ \E h \in 1..NumConns :
           /\ conns[h].pc = "returned"
           /\ conns[h].admits = 1
           /\ conns[h].selects = 0
           /\ conns[h].releases = 1

C3_CountIsLiveAdmits ==
    \A id \in DownstreamIDs :
        /\ Count(connCounts, id) = live["record"][id]
        /\ Count(beginCounts, id) = live["begin"][id]

\* C8: the connCount of every upstream equals the number of Handle
\* invocations that selected it and have not yet run its ConnectionEnded.
C8_ConnCountIsHeld ==
    \A e \in Entries :
        upstreamTrackers[e[1]].upstreams[e[2]].connCount =
            Cardinality({h \in 1..NumConns : Holding(h, e[2])})

C8_Witness ==
    \E e \in Entries :
        /\ upstreamTrackers[e[1]].upstreams[e[2]].connCount = 2
        /\ upstreamTrackers[e[1]].upstreams[e[2]].index < 0

\* C9: an upstream is in a heap, or has been selected by a Handle
\* invocation, only after a health probe of it succeeded.
C9_SelectedOnlyAfterProbe ==
    /\ \A e \in Entries :
           upstreamTrackers[e[1]].upstreams[e[2]].index > -1 => e[2] \in probed
    /\ \A h \in 1..NumConns :
           conns[h].upstreamID # NoUpstream => conns[h].upstreamID \in probed

C9_Witness ==
    /\ \E h \in 1..NumConns : conns[h].pc = "dial" /\ conns[h].upstreamID = "u2"
    /\ "u1" \notin probed
    /\ tick.seen
    /\ probes["u1"] = << >>

\* C10: every tick starts a probe for every upstream that was passed to
\* NewTrafficker.
C10_TickProbesEveryUpstream ==
    tick.seen => tick.started = DOMAIN ups

\* ------------------------------------- claims on health and availability

\* The health-map entry of u is true.
Healthy(u) == u \in DOMAIN upstreamHealth /\ upstreamHealth[u]

\* u is in the heap of its group.
Available(u) ==
    /\ u \in DOMAIN ups
    /\ ups[u] \in DOMAIN upstreamTrackers
    /\ u \in InHeap(upstreamTrackers[ups[u]])

ProbeEnded(id, k) == probes'[id] = Drop(probes[id], k)

\* C12: a probe whose result equals its snapshot of the health ends and
\* changes neither the health map nor a tracker; a probe whose result
\* differs sets the health-map entry to the result and then calls
\* UpstreamAvailable (result true) or UpstreamUnavailable (result false) on
\* the tracker of the group.
C12_HealthStateMachine ==
    [][\A id \in UpstreamIDs : \A k \in 1..Len(probes[id]) :
          LET p == probes[id][k]
          IN  /\ (p.pc = "check" /\ ProbeEnded(id, k)) =>
                     /\ upstreamHealth' = upstreamHealth
                     /\ upstreamTrackers' = upstreamTrackers
                     /\ IF p.healthOld THEN id \in probed'
                                       ELSE probed' = probed
              /\ (/\ p.pc = "check"
                  /\ Len(probes'[id]) = Len(probes[id])
                  /\ probes'[id][k] # p) =>
                     LET q == probes'[id][k]
                     IN  /\ q.pc = "mark"
                         /\ q.healthNew = ~p.healthOld
                         /\ upstreamHealth' =
                                [upstreamHealth EXCEPT ![id] = q.healthNew]
                         /\ upstreamTrackers' = upstreamTrackers
                         /\ IF q.healthNew THEN id \in probed'
                                           ELSE probed' = probed
              /\ (p.pc = "mark" /\ ProbeEnded(id, k)) =>
                     /\ upstreamHealth' = upstreamHealth
                     /\ upstreamTrackers' =
                            [upstreamTrackers EXCEPT ![ups[id]] =
                                IF p.healthNew THEN UpstreamAvailable(@, id)
                                ELSE UpstreamUnavailable(@, id)]
                     /\ Available(id)' <=> p.healthNew]_vars

C12_Witness ==
    /\ Healthy("u1") /\ Available("u1")
    /\ ~Healthy("u2") /\ ~Available("u2") /\ "u2" \in probed
    /\ \A id \in UpstreamIDs : probes[id] = << >>

\* C13: a Handle invocation whose dial fails closes the downstream socket
\* and takes the selected upstream out of the heap of its group before it
\* returns; an upstream enters a heap only by the UpstreamAvailable call of
\* a probe, and NextAvailableUpstream returns only an upstream of the heap.
C13_DialFailureDemotes ==
    [][/\ \A h \in 1..NumConns :
              /\ (conns[h].pc = "dial" /\ conns'[h].pc \notin {"dial", "pump"}) =>
                     /\ conns'[h].closed
                     /\ ~Available(conns[h].upstreamID)'
              /\ (conns[h].pc = "select" /\ conns'[h].pc = "dial") =>
                     Available(conns'[h].upstreamID)
       /\ \A u \in UpstreamIDs :
              (~Available(u) /\ Available(u)') =>
                  \E k \in 1..Len(probes[u]) :
                      /\ probes[u][k].pc = "mark"
                      /\ probes[u][k].healthNew
                      /\ ProbeEnded(u, k)]_vars

C13_Witness ==
    /\ \E h \in 1..NumConns :
           /\ conns[h].pc = "returned"
           /\ conns[h].demoted
           /\ conns[h].closed
    /\ \E u \in UpstreamIDs : Healthy(u) /\ ~Available(u) /\ probes[u] = << >>
    /\ \E h \in 1..NumConns : conns[h].pc = "dial"

C15_EmptyThenFirstIsOne ==
    [][/\ (PQLen(UnitTracker) = 0 /\ last'.op = "next") =>
              last'.id = NoUpstream /\ upstreamTrackers' = upstreamTrackers
       /\ (/\ last.op = "available" /\ last.index < 0
           /\ PQLen(UnitTracker) = 1
           /\ last'.op = "next") =>
              last'.id = last.id /\ CountOf(last.id)' = 1]_vars

\* C15 amended: as above, but the call leaves U1.connCount one above the
\* count that U1 kept while it was out of the heap.
C15_EmptyThenFirstIsNext ==
    [][/\ (PQLen(UnitTracker) = 0 /\ last'.op = "next") =>
              last'.id = NoUpstream /\ upstreamTrackers' = upstreamTrackers
       /\ (/\ last.op = "available" /\ last.index < 0
           /\ PQLen(UnitTracker) = 1
           /\ last'.op = "next") =>
              last'.id = last.id /\ CountOf(last.id)' = last.c + 1]_vars

C15_Witness ==
    /\ last.op = "available"
    /\ last.index < 0
    /\ last.c = 2
    /\ UnitTracker.pq = <<last.id>>
    /\ open[last.id] < MaxOpen

\* C16: for every stored state and every max, TryRecordConnection(id, max)
\* returns true and adds one to the count of id when the count is below
\* max, and otherwise returns false and changes no count; the counts of
\* the other ids stay as they are.
C16_TryAdmit ==
    \A id \in DownstreamIDs, max \in 0..MaxArg :
        LET r == TryRecordConnection(connCounts, id, max)
        IN  /\ r.ok = (Count(connCounts, id) < max)
            /\ Count(r.cc, id) =
                   IF Count(connCounts, id) < max
                   THEN Count(connCounts, id) + 1
                   ELSE Count(connCounts, id)
            /\ \A d \in DownstreamIDs \ {id} :
                   Count(r.cc, d) = Count(connCounts, d)

\* C17: for every max, an admission try for an id without map entry gives
\* the result and the count that it gives for the id with a stored count
\* of 0, in both generations of the API.
C17_AbsentIsZero ==
    \A id \in DownstreamIDs, max \in 0..MaxArg :
        /\ id \notin DOMAIN connCounts =>
               LET a == TryRecordConnection(connCounts, id, max)
                   z == TryRecordConnection(Store(connCounts, id, 0), id, max)
               IN  a.ok = z.ok /\ Count(a.cc, id) = Count(z.cc, id)
        /\ id \notin DOMAIN beginCounts =>
               LET a == TryBeginConnection(beginCounts, id, max)
                   z == TryBeginConnection(Store(beginCounts, id, 0), id, max)
               IN  a.ok = z.ok /\ Count(a.cc, id) = Count(z.cc, id)

\* C18: the Trafficker holds what NewTrafficker was given: the downstreams
\* with their MaxConnections, the upstreams with their groups, and one
\* health-map entry per upstream, false until the first tick.
C18_RetainsArguments ==
    /\ downstreams = downs
    /\ upstreams = ups
    /\ DOMAIN upstreamHealth = DOMAIN ups
    /\ ~tick.seen => \A u \in DOMAIN upstreamHealth : ~upstreamHealth[u]

C21_MonitorTerminates == ctxDone ~> (monitor = "returned")

C21_Witness ==
    /\ monitor = "returned"
    /\ \E id \in UpstreamIDs : Len(probes[id]) = MaxOverlap

\* C28: no fault inside a Handle invocation or a health probe ends the
\* process.
C28_FaultsContained == ~crashed

\* C30: after every operation on an UpstreamConns, every upstream of the
\* priority queue has a connCount at least that of its parent.
C30_MinHeap ==
    \A i \in 1..(PQLen(UnitTracker) - 1) :
        CountOf(At(UnitTracker, GoParent(i))) <= CountOf(At(UnitTracker, i))

C30_Witness ==
    /\ PQLen(UnitTracker) = 3
    /\ last.op = "next"
    /\ UnitTracker.upstreams[last.id].index > 0
    /\ \A u, v \in UpstreamIDs : u # v => CountOf(u) # CountOf(v)

\* C22: dialRetryBackoff makes at most RetryAttempts dial attempts, returns
\* the connection of the first successful attempt without a further one,
\* returns errorAllAttemptsFailed exactly when RetryAttempts attempts (none
\* for RetryAttempts <= 0) were made and all failed, and always returns.
C22_DialRetryBackoff ==
    \A k \in 1..NumDialers :
        /\ [](LET d == dial[k]
                  most == IF d.attempts > 0 THEN d.attempts ELSE 0
              IN  /\ d.dials <= most
                  /\ d.result = "conn" =>
                         d.pc = "returned" /\ d.dials = d.i + 1
                  /\ d.result = "errorAllAttemptsFailed" =>
                         d.pc = "returned" /\ d.dials = most /\ d.i = most
                  /\ d.pc = "returned" =>
                         d.result \in {"conn", "errorAllAttemptsFailed"}
                  /\ d.pc \in {"attempt", "backoff"} =>
                         d.result = "none" /\ d.i < most + 1)
        /\ (dial[k].pc \in {"attempt", "backoff"}) ~> (dial[k].pc = "returned")

C22_Witness ==
    /\ dial[1].pc = "returned"
    /\ dial[1].result = "errorAllAttemptsFailed"
    /\ dial[1].dials = MaxAttempts
    /\ dial[2].pc = "returned"
    /\ dial[2].result = "conn"
    /\ dial[2].dials = 2
    /\ dial[2].attempts = MaxAttempts

\* ---------------------------------------------------- claims on the pump

IsPrefix(a, b) == Len(a) <= Len(b) /\ SubSeq(b, 1, Len(a)) = a

\* C23: Bidirectional has returned only when both loops have returned, and
\* its four results are the write and close errors of the loop towards the
\* upstream followed by those of the loop towards the downstream.
C23_ReturnsAfterBothLoops ==
    pump.pc = "returned" =>
        /\ \A dir \in Dirs : pump.loop[dir].pc = "done"
        /\ pump.ret = <<pump.loop["toUp"].writeErr,
                        pump.loop["toUp"].closeErr,
                        pump.loop["toDown"].writeErr,
                        pump.loop["toDown"].closeErr>>

C23_Witness ==
    /\ pump.pc = "returned"
    /\ pump.ret = <<"writeErr", "nil", "nil", "closeErr">>

C25_WrittenIsPrefixOfRead ==
    \A dir \in Dirs :
        LET l == pump.loop[dir]
        IN  /\ IsPrefix(l.got, pump.sock[Source(dir)].sent)
            /\ IsPrefix(pump.sock[Sink(dir)].out, l.got)
            /\ l.pc = "read" => pump.sock[Sink(dir)].out = l.got
            /\ l.pc = "write" => pump.sock[Sink(dir)].out \o l.buf = l.got
            /\ (l.pc = "done" /\ l.writeErr = "nil") =>
                   pump.sock[Sink(dir)].out = l.got

C25_Witness ==
    /\ pump.loop["toUp"].pc = "done"
    /\ pump.loop["toUp"].writeErr = "nil"
    /\ pump.sock["up"].out = <<"a", "b">>
    /\ pump.loop["toDown"].writeErr = "writeErr"
    /\ pump.loop["toDown"].got = <<"x", "y">>
    /\ pump.sock["down"].out = <<"x">>

\* C26: when Handle has returned, the downstream connection has been closed
\* whichever way it returned, and after a successful dial both connections
\* of the pump are closed, each by exactly one call of Close.
C26_SocketsClosedOnReturn ==
    LET c == conns[1]
    IN  c.pc = "returned" =>
            IF c.dialed /\ ~c.demoted
            THEN \A sd \in Sides :
                     pump.sock[sd].closed /\ pump.sock[sd].closes = 1
            ELSE c.closed

C26_Witness ==
    /\ conns[1].pc = "returned"
    /\ conns[1].dialed /\ ~conns[1].demoted
    /\ pump.pc = "returned"
    /\ pump.ret[1] = "writeErr"
    /\ pump.sock["up"].closes = 1 /\ pump.sock["down"].closes = 1

\* C27: from the call of Bidirectional to the return of Handle, no step of
\* Handle or of the pump, whatever the four outcomes of the pump are, adds
\* an upstream to a heap, removes one from it, or changes the health map.
C27_TransferErrorsKeepAvailability ==
    [][(/\ conns[1].pc \in {"pump", "release"}
        /\ conns[1].dialed /\ ~conns[1].demoted
        /\ (conns' # conns \/ pump' # pump))
       => (/\ \A u \in UpstreamIDs : Available(u)' = Available(u)
           /\ upstreamHealth' = upstreamHealth)]_vars

C27_Witness ==
    /\ conns[1].pc = "release"
    /\ conns[1].dialed /\ ~conns[1].demoted
    /\ pump.pc = "returned"
    /\ pump.ret[1] # "nil" /\ pump.ret[3] # "nil"
    /\ pump.ret[2] # "nil" /\ pump.ret[4] # "nil"
    /\ Available(conns[1].upstreamID)

\* C29: a connection is passed to Trafficker.Handle only after its TLS
\* handshake succeeded and its downstream id is registered and allowed to
\* use the requested group.
C29_AuthenticatedBeforeHandle ==
    \A k \in 1..NumAccepts :
        server[k].handed =>
            /\ server[k].handshake = "ok"
            /\ downstreamAuthorized(server[k].commonName,
                                    server[k].serverName) = "nil"

\* C31: after every operation on an UpstreamConns, every entry either has
\* index -1 and is in no slot of the priority queue, or has an index within
\* the queue whose slot holds that entry; no entry is in two slots.
C31_IndexInvariant ==
    LET tr == UnitTracker
    IN  /\ \A u \in DOMAIN tr.upstreams :
               LET e == tr.upstreams[u]
               IN  \/ e.index = -1 /\ u \notin InHeap(tr)
                   \/ /\ 0 <= e.index /\ e.index < PQLen(tr)
                      /\ At(tr, e.index) = u
        /\ \A i, j \in 1..PQLen(tr) : tr.pq[i] = tr.pq[j] => i = j

\* An upstream was removed from the middle of a queue and its slot refilled.
C31_Witness ==
    /\ last.op = "unavailable"
    /\ last.index >= 0
    /\ last.index < PQLen(UnitTracker) - 1
    /\ UnitTracker.upstreams[last.id].index = -1
    /\ \E u \in InHeap(UnitTracker) : CountOf(u) > 0

\* C32: an upstream is in the priority queue exactly when the latest of
\* UpstreamAvailable / UpstreamUnavailable applied to it was
\* UpstreamAvailable; the length of the queue is the number of upstreams so
\* marked, and the map of entries keeps the ids it was constructed with.
C32_MembershipIsMark ==
    LET tr == UnitTracker
    IN  /\ \A u \in UpstreamIDs : u \in InHeap(tr) <=> marked[u] = "available"
        /\ PQLen(tr) = Cardinality({u \in UpstreamIDs : marked[u] = "available"})
        /\ DOMAIN tr.upstreams = UpstreamIDs

\* An upstream with open connections was marked unavailable after it had
\* been marked available, next to one that stays available.
C32_Witness ==
    /\ last.op = "unavailable"
    /\ last.index >= 0
    /\ last.c > 0
    /\ last.id \notin InHeap(UnitTracker)
    /\ PQLen(UnitTracker) = 2

\* C33: ConnectionEnded leaves the set of upstreams in the priority queue
\* as it is; an upstream enters the queue only in UpstreamAvailable and
\* leaves it only in UpstreamUnavailable.
C33_EndedKeepsMembership ==
    [][LET old == InHeap(UnitTracker)
           new == InHeap(UnitTracker')
       IN  /\ last'.op = "ended" => new = old
           /\ new \ old # {} => last'.op = "available"
           /\ old \ new # {} => last'.op = "unavailable"]_vars

\* The last connection of an upstream outside the queue ended, and the
\* upstream is still outside.
C33_Witness ==
    /\ last.op = "ended"
    /\ last.index < 0
    /\ last.c = 1
    /\ CountOf(last.id) = 0
    /\ last.id \notin InHeap(UnitTracker)

\* C37: dialRetryBackoff does not wait for the backoff timer before its
\* first dial, and a call that returns errorAllAttemptsFailed after k >= 1
\* failed dials has waited k - 1 times.
C37_SleepsOnlyBetweenAttempts ==
    \A k \in 1..NumDialers :
        LET d == dial[k]
        IN  /\ d.dials = 0 => d.sleeps = 0
            /\ (/\ d.pc = "returned"
                /\ d.result = "errorAllAttemptsFailed"
                /\ d.dials >= 1) => d.sleeps = d.dials - 1

\* C36: a loop of the pump whose Read returned bytes together with an
\* error (io.EOF, net.ErrClosed or another error) and whose Write of those
\* bytes succeeded does not read again: it ends on that iteration.
C36_ReadTerminationInspected ==
    \A dir \in Dirs :
        pump.loop[dir].pc = "read" => pump.loop[dir].readErr = "nil"

\* C34: a Handle invocation that selected an upstream releases the
\* downstream only after its upstream ConnectionEnded has run, and after a
\* failed dial its upstream ConnectionEnded runs only after it closed the
\* downstream and applied UpstreamUnavailable.
C34_DeferredInReverse ==
    [][\A h \in 1..NumConns :
          LET c == conns[h]
              d == conns'[h]
          IN  /\ (d.releases > c.releases /\ c.selects > 0) =>
                     c.ends = c.selects
              /\ (d.ends > c.ends /\ c.pc = "endUpstream") =>
                     c.demoted /\ c.closed]_vars

C34_Witness ==
    /\ \E h \in 1..NumConns :
           /\ conns[h].pc = "release"
           /\ conns[h].demoted
           /\ conns[h].ends = 1 /\ conns[h].releases = 0
    /\ \E h \in 1..NumConns :
           /\ conns[h].pc = "returned"
           /\ conns[h].dialed /\ ~conns[h].demoted
           /\ conns[h].ends = 1 /\ conns[h].releases = 1

\* C38: no step of a Handle invocation changes the health map, the step
\* that demotes an upstream after a failed dial included; the health map
\* changes only in a step of a health probe.
C38_OnlyMonitorWritesHealth ==
    [][/\ conns' # conns => upstreamHealth' = upstreamHealth
       /\ upstreamHealth' # upstreamHealth => probes' # probes]_vars

\* A Handle invocation has demoted, after a failed dial, an upstream whose
\* health-map entry is still true.
C38_Witness ==
    \E h \in 1..NumConns :
        /\ conns[h].pc = "endUpstream"
        /\ conns[h].demoted
        /\ Healthy(conns[h].upstreamID)
        /\ ~Available(conns[h].upstreamID)

C39_LockDiscipline ==
    /\ [](\A t \in Tasks :
             /\ Step(t).op \in {"lock", "block", "idle"} => Held(t) = {}
             /\ Cardinality(Held(t)) <= 1)
    /\ \A t \in Tasks :
           (Step(t).op = "lock") ~> (Step(t).op = "unlock")

\* A Handle invocation waits for the tracker of its group while a probe
\* holds it, another probe holds the health map and the other Handle
\* invocation the admission counter.
C39_Witness ==
    \E h, h2 \in HandleTasks, p, q \in ProbeTasks :
        /\ Step(h).op = "lock" /\ Step(h).mutex = "tracker"
        /\ locks.holder[locks.task[h].group] = p
        /\ locks.holder["health"] = q
        /\ locks.holder["limiter"] = h2

====
